---- MODULE Spec2Model ----
(***************************************************************************)
(* cc-diffconfig: load two configuration files, optionally validate both   *)
(* against a JSON schema, diff their canonical JSON text, emit the diff.   *)
(* The model follows src/main.py; json.dumps, difflib.unified_diff and the *)
(* jsonschema keywords used here are modelled by what they compute.        *)
(***************************************************************************)
EXTENDS Integers, Sequences, FiniteSets, TLC

\* ------------------------------------------------------------------ bounds
\* numbers appearing in documents are 1..MaxNum
MaxNum == 2
\* sequences hold at most MaxLen items
MaxLen == 3

\* ------------------------------------------------------- Python values
\* A loaded value.  Python's None is the value of kind "null": the JSON text
\* null, an empty YAML file and load_config's failure return are all None.
None == [kind |-> "null", n |-> 0, s |-> <<>>, keys |-> <<>>, items |-> <<>>]
Bool(b) == [kind |-> "bool", n |-> IF b THEN 1 ELSE 0, s |-> <<>>, keys |-> <<>>, items |-> <<>>]
Num(n) == [kind |-> "num", n |-> n, s |-> <<>>, keys |-> <<>>, items |-> <<>>]
Str(s) == [kind |-> "str", n |-> 0, s |-> s, keys |-> <<>>, items |-> <<>>]
List(items) == [kind |-> "seq", n |-> 0, s |-> <<>>, keys |-> <<>>, items |-> items]
\* a dict keeps insertion order: keys[i] maps to items[i], keys are distinct
Dict(keys, items) == [kind |-> "map", n |-> 0, s |-> <<>>, keys |-> keys, items |-> items]

\* Strings are sequences of code points; Chr gives the character.
Chr == (65 :> "A") @@ (97 :> "a") @@ (98 :> "b")

RECURSIVE StrText(_)
StrText(s) == IF s = <<>> THEN "" ELSE Chr[Head(s)] \o StrText(Tail(s))

\* Python's str < str: lexicographic by code point, a proper prefix is smaller
RECURSIVE StrLess(_, _)
StrLess(x, y) ==
    IF y = <<>> THEN FALSE
    ELSE IF x = <<>> THEN TRUE
    ELSE IF Head(x) # Head(y) THEN Head(x) < Head(y)
    ELSE StrLess(Tail(x), Tail(y))

Digit == <<"0", "1", "2", "3", "4", "5", "6", "7", "8", "9">>

\* str(n) for n >= 0
RECURSIVE IntText(_)
IntText(n) == IF n < 10 THEN Digit[n + 1] ELSE IntText(n \div 10) \o Digit[(n % 10) + 1]

\* ------------------------------------------------ json.dumps(..., indent=4, sort_keys=True)
RECURSIVE Indent(_)
Indent(level) == IF level = 0 THEN "" ELSE "    " \o Indent(level - 1)

\* sorted(dct.items()): positions of the dict in ascending key order (insertion sort)
RECURSIVE InsertKey(_, _, _)
InsertKey(keys, order, i) ==
    IF order = <<>> THEN <<i>>
    ELSE IF StrLess(keys[i], keys[Head(order)]) THEN <<i>> \o order
    ELSE <<Head(order)>> \o InsertKey(keys, Tail(order), i)

RECURSIVE SortedFrom(_, _)
SortedFrom(keys, i) ==
    IF i > Len(keys) THEN <<>> ELSE InsertKey(keys, SortedFrom(keys, i + 1), i)

SortedOrder(keys) == SortedFrom(keys, 1)

\* dct.items(): the positions in insertion order
InsertionOrder(items) == [i \in 1..Len(items) |-> i]

Literal(d) ==
    CASE d.kind = "null" -> "null"
      [] d.kind = "bool" -> (IF d.n = 1 THEN "true" ELSE "false")
      [] d.kind = "num" -> IntText(d.n)
      [] OTHER -> "\"" \o StrText(d.s) \o "\""

\* prefix the first line, append the item separator to the last
Decorate(lines, prefix, suffix) ==
    [i \in 1..Len(lines) |->
        (IF i = 1 THEN prefix ELSE "") \o lines[i] \o (IF i = Len(lines) THEN suffix ELSE "")]

\* The lines of the encoded text of d at nesting level `level`; the first line
\* carries no indentation of its own (the enclosing container supplies it).
RECURSIVE DumpLines(_, _, _)
RECURSIVE DumpItems(_, _, _, _, _)
DumpItems(d, order, k, level, sort_keys) ==
    IF k > Len(order) THEN <<>>
    ELSE LET i == order[k]
             prefix == Indent(level + 1) \o
                       (IF d.kind = "map" THEN "\"" \o StrText(d.keys[i]) \o "\": " ELSE "")
             suffix == IF k < Len(order) THEN "," ELSE ""
         IN Decorate(DumpLines(d.items[i], level + 1, sort_keys), prefix, suffix)
            \o DumpItems(d, order, k + 1, level, sort_keys)

DumpLines(d, level, sort_keys) ==
    CASE d.kind = "seq" ->
            IF d.items = <<>> THEN <<"[]">>
            ELSE <<"[">> \o DumpItems(d, InsertionOrder(d.items), 1, level, sort_keys)
                 \o <<Indent(level) \o "]">>
      [] d.kind = "map" ->
            IF d.items = <<>> THEN <<"{}">>
            ELSE <<"{">> \o DumpItems(d, IF sort_keys THEN SortedOrder(d.keys)
                                          ELSE InsertionOrder(d.keys), 1, level, sort_keys)
                 \o <<Indent(level) \o "}">>
      [] OTHER -> <<Literal(d)>>

\* json.dumps(obj, indent=4, sort_keys=sort_keys).splitlines()
dumps(obj, sort_keys) == DumpLines(obj, 0, sort_keys)

\* ------------------------------------------------ difflib.unified_diff(a, b, "file1", "file2")
\* Indices are Python's: 0-based, half-open; a[i] is written a[i + 1].

\* unified_diff's n: lines of context around a change
Context == 3

\* length of the common run of a[i:ahi] and b[j:bhi] from their starts
RECURSIVE RunLen(_, _, _, _, _, _)
RunLen(a, b, i, j, ahi, bhi) ==
    IF i < ahi /\ j < bhi /\ a[i + 1] = b[j + 1]
    THEN 1 + RunLen(a, b, i + 1, j + 1, ahi, bhi)
    ELSE 0

\* SequenceMatcher.find_longest_match without junk: the longest block common to
\* a[alo:ahi] and b[blo:bhi]; of the longest, the one starting earliest in a,
\* and of those the one starting earliest in b.  <<alo, blo, 0>> when nothing matches.
find_longest_match(a, b, alo, ahi, blo, bhi) ==
    LET starts == (alo..(ahi - 1)) \X (blo..(bhi - 1))
        size(p) == RunLen(a, b, p[1], p[2], ahi, bhi)
        longest == {p \in starts : size(p) > 0 /\ \A q \in starts : size(q) <= size(p)}
    IN IF longest = {} THEN <<alo, blo, 0>>
       ELSE LET besti == CHOOSE i \in {p[1] : p \in longest} :
                            \A p \in longest : i <= p[1]
                bestj == CHOOSE j \in {p[2] : p \in {q \in longest : q[1] = besti}} :
                            \A p \in longest : p[1] = besti => j <= p[2]
            IN <<besti, bestj, RunLen(a, b, besti, bestj, ahi, bhi)>>

\* the recursion of SequenceMatcher.get_matching_blocks, in sorted order
RECURSIVE MatchRec(_, _, _, _, _, _)
MatchRec(a, b, alo, ahi, blo, bhi) ==
    LET m == find_longest_match(a, b, alo, ahi, blo, bhi)
        i == m[1]
        j == m[2]
        k == m[3]
    IN IF k = 0 THEN <<>>
       ELSE (IF alo < i /\ blo < j THEN MatchRec(a, b, alo, i, blo, j) ELSE <<>>)
            \o <<m>>
            \o (IF i + k < ahi /\ j + k < bhi THEN MatchRec(a, b, i + k, ahi, j + k, bhi)
                ELSE <<>>)

\* adjacent blocks are merged into one
RECURSIVE Collapse(_, _)
Collapse(blocks, cur) ==
    IF blocks = <<>> THEN (IF cur[3] > 0 THEN <<cur>> ELSE <<>>)
    ELSE LET nxt == Head(blocks)
         IN IF cur[1] + cur[3] = nxt[1] /\ cur[2] + cur[3] = nxt[2]
            THEN Collapse(Tail(blocks), <<cur[1], cur[2], cur[3] + nxt[3]>>)
            ELSE (IF cur[3] > 0 THEN <<cur>> ELSE <<>>) \o Collapse(Tail(blocks), nxt)

\* SequenceMatcher.get_matching_blocks: ends with the sentinel (len(a), len(b), 0)
get_matching_blocks(a, b) ==
    Collapse(MatchRec(a, b, 0, Len(a), 0, Len(b)), <<0, 0, 0>>) \o <<<<Len(a), Len(b), 0>>>>

\* SequenceMatcher.get_opcodes: <<tag, i1, i2, j1, j2>>
RECURSIVE OpcodesFrom(_, _, _)
OpcodesFrom(blocks, i, j) ==
    IF blocks = <<>> THEN <<>>
    ELSE LET ai == Head(blocks)[1]
             bj == Head(blocks)[2]
             size == Head(blocks)[3]
             tag == IF i < ai /\ j < bj THEN "replace"
                    ELSE IF i < ai THEN "delete"
                    ELSE IF j < bj THEN "insert"
                    ELSE ""
         IN (IF tag # "" THEN <<<<tag, i, ai, j, bj>>>> ELSE <<>>)
            \o (IF size > 0 THEN <<<<"equal", ai, ai + size, bj, bj + size>>>> ELSE <<>>)
            \o OpcodesFrom(Tail(blocks), ai + size, bj + size)

get_opcodes(a, b) == OpcodesFrom(get_matching_blocks(a, b), 0, 0)

Max(x, y) == IF x > y THEN x ELSE y
Min(x, y) == IF x < y THEN x ELSE y

\* the loop of get_grouped_opcodes: the groups yielded so far and the open group
RECURSIVE GroupLoop(_, _, _)
GroupLoop(codes, groups, group) ==
    IF codes = <<>>
    THEN IF group # <<>> /\ ~(Len(group) = 1 /\ group[1][1] = "equal")
         THEN Append(groups, group) ELSE groups
    ELSE LET c == Head(codes)
         IN IF c[1] = "equal" /\ c[3] - c[2] > Context + Context
            THEN GroupLoop(Tail(codes),
                           Append(groups,
                                  Append(group, <<"equal", c[2], Min(c[3], c[2] + Context),
                                                  c[4], Min(c[5], c[4] + Context)>>)),
                           << <<"equal", Max(c[2], c[3] - Context), c[3],
                                Max(c[4], c[5] - Context), c[5]>> >>)
            ELSE GroupLoop(Tail(codes), groups, Append(group, c))

\* get_grouped_opcodes: an empty list of opcodes stands for one equal line
NonEmptyCodes(codes) == IF codes = <<>> THEN << <<"equal", 0, 1, 0, 1>> >> ELSE codes

\* get_grouped_opcodes: a leading equal run keeps its last n lines
TrimFirst(codes) ==
    LET f == codes[1]
    IN IF f[1] = "equal"
       THEN [codes EXCEPT ![1] = <<"equal", Max(f[2], f[3] - Context), f[3],
                                   Max(f[4], f[5] - Context), f[5]>>]
       ELSE codes

\* get_grouped_opcodes: a trailing equal run keeps its first n lines
TrimLast(codes) ==
    LET l == codes[Len(codes)]
    IN IF l[1] = "equal"
       THEN [codes EXCEPT ![Len(codes)] = <<"equal", l[2], Min(l[3], l[2] + Context),
                                            l[4], Min(l[5], l[4] + Context)>>]
       ELSE codes

\* SequenceMatcher.get_grouped_opcodes(n): long equal runs split the changes
\* into groups
get_grouped_opcodes(a, b) ==
    GroupLoop(TrimLast(TrimFirst(NonEmptyCodes(get_opcodes(a, b)))), <<>>, <<>>)

\* difflib._format_range_unified
format_range_unified(start, stop) ==
    LET length == stop - start
    IN IF length = 1 THEN IntText(start + 1)
       ELSE IntText(IF length = 0 THEN start ELSE start + 1) \o "," \o IntText(length)

\* One yielded string, kept in three parts: its marker, the rest of its text
\* and its line terminator ("\n" or "").  The string is tag \o body \o term.
DiffLine(tag, body, term) == [tag |-> tag, body |-> body, term |-> term]

\* unified_diff's lineterm parameter, left at its default by diff_configs
lineterm == "\n"

Marked(tag, lines, lo, hi) ==
    [k \in 1..(hi - lo) |-> DiffLine(tag, lines[lo + k], "")]

RECURSIVE GroupLines(_, _, _)
GroupLines(a, b, group) ==
    IF group = <<>> THEN <<>>
    ELSE LET c == Head(group)
         IN (IF c[1] = "equal" THEN Marked(" ", a, c[2], c[3])
             ELSE (IF c[1] \in {"replace", "delete"} THEN Marked("-", a, c[2], c[3]) ELSE <<>>)
                  \o (IF c[1] \in {"replace", "insert"} THEN Marked("+", b, c[4], c[5]) ELSE <<>>))
            \o GroupLines(a, b, Tail(group))

RECURSIVE HunkLines(_, _, _)
HunkLines(a, b, groups) ==
    IF groups = <<>> THEN <<>>
    ELSE LET g == Head(groups)
             first == g[1]
             last == g[Len(g)]
         IN <<DiffLine("@@", " -" \o format_range_unified(first[2], last[3])
                             \o " +" \o format_range_unified(first[4], last[5]) \o " @@",
                       lineterm)>>
            \o GroupLines(a, b, g)
            \o HunkLines(a, b, Tail(groups))

\* the body of unified_diff's loop: the two file headers before the first group
FormatGroups(a, b, groups, fromfile, tofile) ==
    IF groups = <<>> THEN <<>>
    ELSE <<DiffLine("---", " " \o fromfile, lineterm),
           DiffLine("+++", " " \o tofile, lineterm)>>
         \o HunkLines(a, b, groups)

unified_diff(a, b, fromfile, tofile) ==
    FormatGroups(a, b, get_grouped_opcodes(a, b), fromfile, tofile)

\* ------------------------------------------------------------ diff_configs
\* the mutant of diff_configs: sort_keys=True left out for config2
diff_configs_second_unsorted(config1, config2) ==
    unified_diff(dumps(config1, TRUE), dumps(config2, FALSE), "file1", "file2")

diff_configs(config1, config2) ==
    unified_diff(dumps(config1, TRUE), dumps(config2, TRUE), "file1", "file2")

\* ---------------------------------------------------------------- inputs
Range(f) == {f[i] : i \in DOMAIN f}

\* mapping keys "A", "a", "ab" (ascending); two keys order by code point, two by prefix
Keys == {<<65>>, <<97>>, <<97, 98>>}

Nums == {Num(n) : n \in 1..MaxNum}

Scalars == {None, Bool(TRUE), Bool(FALSE), Str(<<97>>)} \cup Nums

SeqsOver(S, n) == UNION {[1..k -> S] : k \in 0..n}

\* sequences of numbers, up to MaxLen items
Lists == {List(items) : items \in SeqsOver(Nums, MaxLen)}

\* one or two distinct keys in either insertion order
KeyLists == {ks \in SeqsOver(Keys, 2) : Len(ks) = Cardinality(Range(ks))}

FlatDicts ==
    {Dict(ks, vs) : <<ks, vs>> \in
        {p \in KeyLists \X SeqsOver({Num(1), Str(<<98>>)}, 2) : Len(p[1]) = Len(p[2])}}

\* the same nested mapping written in its two key orders, and a nested sequence
Inner ==
    {Dict(<<<<97>>, <<97, 98>>>>, <<Num(1), Num(2)>>),
     Dict(<<<<97, 98>>, <<97>>>>, <<Num(2), Num(1)>>),
     List(<<Num(1)>>)}

Nested ==
    {Dict(<<<<97>>, <<65>>>>, <<m, Num(1)>>) : m \in Inner}
    \cup {Dict(<<<<65>>, <<97>>>>, <<Num(1), m>>) : m \in Inner}
    \cup {List(<<m>>) : m \in Inner}

\* the documents diff_configs is applied to
Docs == Scalars \cup Lists \cup FlatDicts \cup Nested

\* the documents the two files of a run may hold
FileDocs ==
    {None, Num(1),
     List(<<Num(1), Num(2), Num(1)>>), List(<<Num(2), Num(1), Num(1)>>),
     Dict(<<<<97>>, <<97, 98>>>>, <<Num(1), Num(2)>>),
     Dict(<<<<97, 98>>, <<97>>>>, <<Num(2), Num(1)>>),
     Dict(<<<<65>>>>, <<Num(1)>>),
     Dict(<<<<97>>, <<65>>>>, <<Dict(<<<<97>>, <<97, 98>>>>, <<Num(1), Num(2)>>), Num(1)>>),
     Dict(<<<<65>>, <<97>>>>, <<Num(1), Dict(<<<<97, 98>>, <<97>>>>, <<Num(2), Num(1)>>)>>)}

\* A path on disk.  state: "missing", "vanishes" (there when os.path.exists looks,
\* gone when open() is called), "unreadable" (exists, open() fails) or "file".
\* syntax: "json" (parses as JSON and as YAML), "yaml" (YAML only), "empty"
\* (zero bytes: YAML's null document, no JSON document) or "bad" (neither).
File(state, syntax, doc) == [state |-> state, syntax |-> syntax, doc |-> doc]

Contents ==
    {File("missing", "bad", None), File("vanishes", "bad", None),
     File("unreadable", "bad", None), File("file", "bad", None),
     File("file", "empty", None),
     File("file", "yaml", Dict(<<<<97>>>>, <<Num(2)>>))}
    \cup {File("file", "json", d) : d \in FileDocs}

\* A JSON Schema: its "type" keyword ("" when absent) and its "required" keys;
\* wellformed is false for a JSON document that is no valid schema.
Schema(wellformed, type, required) ==
    [wellformed |-> wellformed, type |-> type, required |-> required]

SchemaFile(state, syntax, schema) == [state |-> state, syntax |-> syntax, schema |-> schema]

NoSchema == Schema(FALSE, "", {})

SchemaContents ==
    {SchemaFile("missing", "bad", NoSchema), SchemaFile("file", "bad", NoSchema),
     SchemaFile("file", "json", NoSchema),
     SchemaFile("file", "json", Schema(TRUE, "object", {<<97>>}))}

\* an option that was not given on the command line (argparse's None)
Absent == "<None>"

\* Python truthiness of an option value
Truthy(opt) == opt # Absent /\ opt # ""

\* ------------------------------------------------------------- logging
Logged(level, msg, about) == [level |-> level, msg |-> msg, about |-> about]

\* ------------------------------------------------------------ load_config
\* The outcome of a call: the exception that leaves it ("" when it returns),
\* the value returned, the records logged.
Outcome(raised, value, logged) == [raised |-> raised, value |-> value, logged |-> logged]

\* the body of the with statement: open(), then the parser of config_type
ReadConfig(file, config_type) ==
    IF file.state \in {"missing", "vanishes"} THEN Outcome("FileNotFoundError", None, <<>>)
    ELSE IF file.state = "unreadable" THEN Outcome("OSError", None, <<>>)
    ELSE IF config_type = "json"
    THEN IF file.syntax = "json" THEN Outcome("", file.doc, <<>>)
         ELSE Outcome("ValueError", None, <<>>)
    ELSE IF config_type = "yaml"
    THEN IF file.syntax \in {"json", "yaml"} THEN Outcome("", file.doc, <<>>)
         ELSE IF file.syntax = "empty" THEN Outcome("", None, <<>>)
         ELSE Outcome("ValueError", None, <<>>)
    ELSE IF config_type = "ini" THEN Outcome("ValueError", None, <<>>)
    ELSE Outcome("", None, <<Logged("ERROR", "Unsupported configuration type", config_type)>>)

\* the two handlers around it: FileNotFoundError is raised again, every other
\* exception (the ValueError of the parsers included) is logged and None returned
load_config(file_path, file, config_type) ==
    LET r == ReadConfig(file, config_type)
    IN IF r.raised = "FileNotFoundError"
       THEN Outcome("FileNotFoundError", None, <<>>)
       ELSE IF r.raised # ""
       THEN Outcome("", None, <<Logged("ERROR", "Error loading config file", r.raised)>>)
       ELSE r

\* -------------------------------------------------------- validate_config
\* jsonschema.validate for the keywords "type": "object" and "required"
\* ("required" constrains objects only)
Validates(d, schema) ==
    /\ schema.type = "object" => d.kind = "map"
    /\ d.kind = "map" => schema.required \subseteq Range(d.keys)

\* the mutant of validate_config: the ValidationError handler returns True
validate_config_lenient(config_data, schema_path, file) ==
    IF ~Truthy(schema_path) THEN Outcome("", Bool(TRUE), <<>>)
    ELSE IF file.state = "missing"
    THEN Outcome("", Bool(FALSE), <<Logged("ERROR", "Schema file not found", schema_path)>>)
    ELSE IF file.state # "file"
    THEN Outcome("", Bool(FALSE), <<Logged("ERROR", "Error validating configuration", "OSError")>>)
    ELSE IF file.syntax # "json"
    THEN Outcome("", Bool(FALSE), <<Logged("ERROR", "Invalid JSON schema file", schema_path)>>)
    ELSE IF ~file.schema.wellformed
    THEN Outcome("", Bool(FALSE), <<Logged("ERROR", "Error validating configuration", "SchemaError")>>)
    ELSE IF ~Validates(config_data, file.schema)
    THEN Outcome("", Bool(TRUE), <<Logged("ERROR", "Configuration validation failed", "ValidationError")>>)
    ELSE Outcome("", Bool(TRUE),
                 <<Logged("INFO", "Configuration file is valid against the schema.", "")>>)

validate_config(config_data, schema_path, file) ==
    IF ~Truthy(schema_path) THEN Outcome("", Bool(TRUE), <<>>)
    ELSE IF file.state = "missing"
    THEN Outcome("", Bool(FALSE), <<Logged("ERROR", "Schema file not found", schema_path)>>)
    ELSE IF file.state # "file"
    THEN Outcome("", Bool(FALSE), <<Logged("ERROR", "Error validating configuration", "OSError")>>)
    ELSE IF file.syntax # "json"
    THEN Outcome("", Bool(FALSE), <<Logged("ERROR", "Invalid JSON schema file", schema_path)>>)
    ELSE IF ~file.schema.wellformed
    THEN Outcome("", Bool(FALSE), <<Logged("ERROR", "Error validating configuration", "SchemaError")>>)
    ELSE IF ~Validates(config_data, file.schema)
    THEN Outcome("", Bool(FALSE), <<Logged("ERROR", "Configuration validation failed", "ValidationError")>>)
    ELSE Outcome("", Bool(TRUE),
                 <<Logged("INFO", "Configuration file is valid against the schema.", "")>>)

\* ------------------------------------------------------------- the sink
\* Emitted text is a sequence of tokens: a piece of text without a newline,
\* or the newline NL.
NL == "\n"

\* line + "\n" as tokens, for one string of the diff
Emitted(line) ==
    <<line.tag \o line.body>> \o (IF line.term = NL THEN <<NL>> ELSE <<>>) \o <<NL>>

RECURSIVE EmittedAll(_)
EmittedAll(lines) ==
    IF lines = <<>> THEN <<>> ELSE Emitted(Head(lines)) \o EmittedAll(Tail(lines))

OutFile(exists, text) == [exists |-> exists, text |-> text]

NoFile == OutFile(FALSE, <<>>)

FirstLines(lines, k) == [i \in 1..k |-> lines[i]]

\* the mutant of write_diff: no try/except, the exception leaves write_diff
write_diff_unguarded(lines, output_file, old, fault, k) ==
    IF fault = "open"
    THEN [file |-> old, raised |-> "OSError", value |-> None, logged |-> <<>>]
    ELSE IF fault = "write"
    THEN [file |-> OutFile(TRUE, EmittedAll(FirstLines(lines, k))), raised |-> "OSError",
          value |-> None, logged |-> <<>>]
    ELSE [file |-> OutFile(TRUE, EmittedAll(lines)), raised |-> "", value |-> None,
          logged |-> <<Logged("INFO", "Diff written to", output_file)>>]

\* write_diff: open(output_file, "w") truncates or creates the file, each string
\* is written followed by "\n".  fault: "none", "open" (open() raises) or
\* "write" (the write after k strings raises); both are caught and logged.
write_diff(lines, output_file, old, fault, k) ==
    IF fault = "open"
    THEN [file |-> old, raised |-> "", value |-> None,
          logged |-> <<Logged("ERROR", "Error writing diff to file", "OSError")>>]
    ELSE IF fault = "write"
    THEN [file |-> OutFile(TRUE, EmittedAll(FirstLines(lines, k))), raised |-> "", value |-> None,
          logged |-> <<Logged("ERROR", "Error writing diff to file", "OSError")>>]
    ELSE [file |-> OutFile(TRUE, EmittedAll(lines)), raised |-> "", value |-> None,
          logged |-> <<Logged("INFO", "Diff written to", output_file)>>]

\* --------------------------------------------------------------- main
VARIABLES
    args,       \* the parsed command line
    disk,       \* the files the run reads and writes
    pc,         \* main's position
    config1,    \* main's locals
    config2,
    diff,
    stdout,     \* tokens printed
    log,        \* records logged
    calls,      \* the calls main has made, in order
    exitcode    \* the process's exit code, -1 while it runs

vars == <<args, disk, pc, config1, config2, diff, stdout, log, calls, exitcode>>

Init ==
    /\ args \in [file1 : {"file1"}, file2 : {"file2"}, type : {"json", "yaml", "ini"},
                 output : {Absent, "out.diff"}, schema : {Absent, "", "schema.json"}]
    /\ disk \in [file1 : Contents, file2 : Contents, schema : SchemaContents,
                 output : {NoFile, OutFile(TRUE, <<"old", NL>>)}]
    /\ ~Truthy(args.schema) => disk.schema.state = "missing"
    /\ ~Truthy(args.output) => disk.output = NoFile
    /\ pc = "check"
    /\ config1 = None
    /\ config2 = None
    /\ diff = <<>>
    /\ stdout = <<>>
    /\ log = <<>>
    /\ calls = <<>>
    /\ exitcode = -1

\* sys.exit(code)
Exit(code) == pc' = "exit" /\ exitcode' = code

\* how a call ended, as calls records it: the exception raised, or the kind of
\* value returned ("None", "False", "True" or "value")
Result(r) ==
    IF r.raised # "" THEN r.raised
    ELSE IF r.value = None THEN "None"
    ELSE IF r.value = Bool(FALSE) THEN "False"
    ELSE IF r.value = Bool(TRUE) THEN "True"
    ELSE "value"

\* lines 167-173: both paths must exist
CheckFiles ==
    /\ pc = "check"
    /\ IF disk.file1.state = "missing"
       THEN /\ calls' = Append(calls, <<"exists", args.file1, "False">>)
            /\ log' = Append(log, Logged("ERROR", "File not found", args.file1))
            /\ Exit(1)
       ELSE IF disk.file2.state = "missing"
       THEN /\ calls' = calls \o <<<<"exists", args.file1, "True">>,
                                    <<"exists", args.file2, "False">>>>
            /\ log' = Append(log, Logged("ERROR", "File not found", args.file2))
            /\ Exit(1)
       ELSE /\ calls' = calls \o <<<<"exists", args.file1, "True">>,
                                    <<"exists", args.file2, "True">>>>
            /\ pc' = "load1"
            /\ UNCHANGED <<log, exitcode>>
    /\ UNCHANGED <<args, disk, config1, config2, diff, stdout>>

\* str(e) of the exception main's handlers log, without the path
ErrorText(r) == IF r.raised = "FileNotFoundError" THEN "File not found" ELSE "Invalid file"

\* line 176, and the handlers of lines 178-183 when load_config raises
LoadFile1 ==
    /\ pc = "load1"
    /\ LET r == load_config(args.file1, disk.file1, args.type)
       IN /\ calls' = Append(calls, <<"load_config", args.file1, Result(r)>>)
          /\ IF r.raised \in {"ValueError", "FileNotFoundError"}
             THEN /\ log' = log \o r.logged \o <<Logged("ERROR", ErrorText(r), args.file1)>>
                  /\ Exit(1)
                  /\ UNCHANGED config1
             ELSE /\ log' = log \o r.logged
                  /\ config1' = r.value
                  /\ pc' = "load2"
                  /\ UNCHANGED exitcode
    /\ UNCHANGED <<args, disk, config2, diff, stdout>>

\* line 177, same handlers
LoadFile2 ==
    /\ pc = "load2"
    /\ LET r == load_config(args.file2, disk.file2, args.type)
       IN /\ calls' = Append(calls, <<"load_config", args.file2, Result(r)>>)
          /\ IF r.raised \in {"ValueError", "FileNotFoundError"}
             THEN /\ log' = log \o r.logged \o <<Logged("ERROR", ErrorText(r), args.file2)>>
                  /\ Exit(1)
                  /\ UNCHANGED config2
             ELSE /\ log' = log \o r.logged
                  /\ config2' = r.value
                  /\ pc' = "loaded"
                  /\ UNCHANGED exitcode
    /\ UNCHANGED <<args, disk, config1, diff, stdout>>

\* the mutant of LoadFailed: only config1 is looked at
LoadFailedFirstOnly(c1, c2) == c1 = None

\* line 185: config1 is None or config2 is None
LoadFailed(c1, c2) == c1 = None \/ c2 = None

\* lines 185-186
CheckLoaded ==
    /\ pc = "loaded"
    /\ IF LoadFailed(config1, config2)
       THEN Exit(1)
       ELSE pc' = "validate1" /\ UNCHANGED exitcode
    /\ UNCHANGED <<args, disk, config1, config2, diff, stdout, log, calls>>

\* lines 189-190: the left operand of the or; skipped without --schema
Validate1 ==
    /\ pc = "validate1"
    /\ IF ~Truthy(args.schema)
       THEN pc' = "diff" /\ UNCHANGED <<log, calls, exitcode>>
       ELSE LET r == validate_config(config1, args.schema, disk.schema)
            IN /\ calls' = Append(calls, <<"validate_config", "config1", Result(r)>>)
               /\ log' = log \o r.logged
               /\ IF r.value = Bool(FALSE)
                  THEN Exit(1)
                  ELSE pc' = "validate2" /\ UNCHANGED exitcode
    /\ UNCHANGED <<args, disk, config1, config2, diff, stdout>>

\* lines 190-191: the right operand, evaluated only when the left one was valid
Validate2 ==
    /\ pc = "validate2"
    /\ LET r == validate_config(config2, args.schema, disk.schema)
       IN /\ calls' = Append(calls, <<"validate_config", "config2", Result(r)>>)
          /\ log' = log \o r.logged
          /\ IF r.value = Bool(FALSE)
             THEN Exit(1)
             ELSE pc' = "diff" /\ UNCHANGED exitcode
    /\ UNCHANGED <<args, disk, config1, config2, diff, stdout>>

\* line 193
DiffConfigs ==
    /\ pc = "diff"
    /\ diff' = diff_configs(config1, config2)
    /\ calls' = Append(calls, <<"diff_configs", "", "list">>)
    /\ pc' = "emit"
    /\ UNCHANGED <<args, disk, config1, config2, stdout, log, exitcode>>

\* the mutant of EmitTo: the diff is written whether or not it is empty
EmitToAlways(lines, output) == IF Truthy(output) THEN "write" ELSE "print"

\* lines 195-202: where the diff goes
EmitTo(lines, output) ==
    IF lines # <<>> THEN (IF Truthy(output) THEN "write" ELSE "print") ELSE "report"

\* lines 195-197: the file system decides whether open() or a write fails
WriteDiff ==
    /\ pc = "emit"
    /\ EmitTo(diff, args.output) = "write"
    /\ \E fault \in {"none", "open", "write"} :
       \E k \in 0..Len(diff) :
          /\ IF fault = "write" THEN k < Len(diff) ELSE k = 0
          /\ LET r == write_diff(diff, args.output, disk.output, fault, k)
             IN /\ disk' = [disk EXCEPT !.output = r.file]
                /\ log' = log \o r.logged
                /\ calls' = Append(calls, <<"write_diff", args.output, Result(r)>>)
                /\ IF r.raised # ""
                   THEN Exit(1)
                   ELSE pc' = "finish" /\ UNCHANGED exitcode
    /\ UNCHANGED <<args, config1, config2, diff, stdout>>

\* lines 198-200: print(line) for each string; standard output is taken to be writable
PrintDiff ==
    /\ pc = "emit"
    /\ EmitTo(diff, args.output) = "print"
    /\ stdout' = stdout \o EmittedAll(diff)
    /\ calls' = Append(calls, <<"print", "", "None">>)
    /\ pc' = "finish"
    /\ UNCHANGED <<args, disk, config1, config2, diff, log, exitcode>>

\* lines 201-202
ReportIdentical ==
    /\ pc = "emit"
    /\ EmitTo(diff, args.output) = "report"
    /\ log' = Append(log, Logged("INFO", "Configurations are identical.", ""))
    /\ pc' = "finish"
    /\ UNCHANGED <<args, disk, config1, config2, diff, stdout, calls, exitcode>>

\* line 204, then main returns and the interpreter exits with code 0
Finish ==
    /\ pc = "finish"
    /\ log' = Append(log, Logged("INFO", "Configuration comparison completed.", ""))
    /\ pc' = "exit"
    /\ exitcode' = 0
    /\ UNCHANGED <<args, disk, config1, config2, diff, stdout, calls>>

Next ==
    \/ CheckFiles
    \/ LoadFile1
    \/ LoadFile2
    \/ CheckLoaded
    \/ Validate1
    \/ Validate2
    \/ DiffConfigs
    \/ WriteDiff
    \/ PrintDiff
    \/ ReportIdentical
    \/ Finish

Spec == Init /\ [][Next]_vars

\* diff_configs applied to any two documents
InitDiff ==
    /\ args = [file1 |-> "file1", file2 |-> "file2", type |-> "json",
               output |-> Absent, schema |-> Absent]
    /\ config1 \in Docs
    /\ config2 \in Docs
    /\ disk = [file1 |-> File("file", "json", config1), file2 |-> File("file", "json", config2),
               schema |-> SchemaFile("missing", "bad", NoSchema), output |-> NoFile]
    /\ pc = "diff"
    /\ diff = <<>>
    /\ stdout = <<>>
    /\ log = <<>>
    /\ calls = <<>>
    /\ exitcode = -1

SpecDiff == InitDiff /\ [][DiffConfigs]_vars

\* ------------------------------------------------- what the claims speak of
\* the file exists, can be read and its content is well-formed for config_type
Parses(file, config_type) ==
    /\ file.state = "file"
    /\ \/ config_type = "json" /\ file.syntax = "json"
       \/ config_type = "yaml" /\ file.syntax \in {"json", "yaml", "empty"}

\* the Document a well-formed file holds (an empty YAML file holds null)
Holds(file) == IF file.syntax = "empty" THEN None ELSE file.doc

\* the same value up to the insertion order of mapping keys, at every level
RECURSIVE SameUpToKeyOrder(_, _)
SameUpToKeyOrder(x, y) ==
    /\ x.kind = y.kind
    /\ x.n = y.n
    /\ x.s = y.s
    /\ Len(x.items) = Len(y.items)
    /\ IF x.kind = "map"
       THEN /\ Range(x.keys) = Range(y.keys)
            /\ \A i \in DOMAIN x.keys : \A j \in DOMAIN y.keys :
                  x.keys[i] = y.keys[j] => SameUpToKeyOrder(x.items[i], y.items[j])
       ELSE \A i \in DOMAIN x.items : SameUpToKeyOrder(x.items[i], y.items[i])

Called(fn, arg) == \E i \in DOMAIN calls : calls[i][1] = fn /\ calls[i][2] = arg

CalledAny(fns) == \E i \in DOMAIN calls : calls[i][1] \in fns

HasLogged(level, msg) == \E i \in DOMAIN log : log[i].level = level /\ log[i].msg = msg

\* the --output path is as it was before the run
Untouched(file) == file = NoFile \/ file = OutFile(TRUE, <<"old", NL>>)

CountNL(tokens) == Cardinality({i \in DOMAIN tokens : tokens[i] = NL})

IsText(token) == token # NL

\* tokens are exactly one newline-terminated line per string of lines, in order
OneLineEach(tokens, lines) ==
    /\ CountNL(tokens) = Len(lines)
    /\ \A i \in DOMAIN tokens : tokens[i] = NL => i > 1 /\ tokens[i - 1] # NL
    /\ SelectSeq(tokens, IsText) = [i \in 1..Len(lines) |-> lines[i].tag \o lines[i].body]

\* how often body occurs in lines under the marker tag
Count(lines, tag, body) ==
    Cardinality({i \in DOMAIN lines : lines[i].tag = tag /\ lines[i].body = body})

Bodies(lines) == {lines[i].body : i \in {j \in DOMAIN lines : lines[j].tag \in {" ", "-", "+"}}}

\* ------------------------------------------------------------ the claims

\* C1 (as stated): a run over two well-formed files whose documents are equal up
\* to mapping key order computes an empty diff, reports no differences and
\* exits with code 0.
C1_KeyOrderRunReportsNoDifference ==
    (/\ pc = "exit"
     /\ args.schema = Absent
     /\ Parses(disk.file1, args.type)
     /\ Parses(disk.file2, args.type)
     /\ SameUpToKeyOrder(Holds(disk.file1), Holds(disk.file2)))
    => /\ exitcode = 0
       /\ Called("diff_configs", "")
       /\ diff = <<>>
       /\ stdout = <<>>
       /\ HasLogged("INFO", "Configurations are identical.")

\* Not a claim: diff_configs alone returns the empty sequence for every two
\* documents equal up to mapping key order (checked under SpecDiff).
KeyOrderDiffIsEmpty ==
    (pc = "emit" /\ SameUpToKeyOrder(config1, config2)) => diff = <<>>

\* Not a claim: C1 holds of every run whose two documents are not null.
KeyOrderRunOfNonNull ==
    (Holds(disk.file1) # None /\ Holds(disk.file2) # None)
    => C1_KeyOrderRunReportsNoDifference

\* C2: a run in which file1 or file2 is missing or fails to load never reaches
\* validation, diff or output, can always take its next step until it exits,
\* and exits with code 1; when file1 is missing the one error logged names
\* file1 and load_config is never called.
C2_LoadFailureExitsOne ==
    (~Parses(disk.file1, args.type) \/ ~Parses(disk.file2, args.type))
    => /\ pc \in {"check", "load1", "load2", "loaded", "exit"}
       /\ pc # "exit" => ENABLED Next
       /\ pc = "exit" => exitcode = 1
       /\ ~CalledAny({"validate_config", "diff_configs", "write_diff", "print"})
       /\ stdout = <<>>
       /\ Untouched(disk.output)
       /\ (disk.file1.state = "missing" /\ pc = "exit")
          => /\ log = <<Logged("ERROR", "File not found", args.file1)>>
             /\ ~CalledAny({"load_config"})

\* C2 witness: file1 loads, file2 is an existing malformed file, the run has exited with 1
C2_Witness ==
    /\ pc = "exit"
    /\ exitcode = 1
    /\ Parses(disk.file1, args.type)
    /\ Holds(disk.file1) # None
    /\ disk.file2.state = "file"
    /\ ~Parses(disk.file2, args.type)
    /\ Called("load_config", args.file2)

\* the schema named by --schema is missing, is not JSON, is no schema, or one
\* of the two documents the files hold violates it
SchemaRejects ==
    /\ Truthy(args.schema)
    /\ \/ disk.schema.state # "file"
       \/ disk.schema.syntax # "json"
       \/ ~disk.schema.schema.wellformed
       \/ /\ Parses(disk.file1, args.type)
          /\ Parses(disk.file2, args.type)
          /\ \/ ~Validates(Holds(disk.file1), disk.schema.schema)
             \/ ~Validates(Holds(disk.file2), disk.schema.schema)

\* C3: with --schema given (a non-empty path) and the schema missing, malformed
\* or violated by either document, the run never computes, prints or writes a
\* diff and exits with code 1.
C3_SchemaFailureExitsOne ==
    SchemaRejects
    => /\ pc \notin {"diff", "emit", "finish"}
       /\ pc = "exit" => exitcode = 1
       /\ ~CalledAny({"diff_configs", "write_diff", "print"})
       /\ diff = <<>>
       /\ stdout = <<>>
       /\ Untouched(disk.output)

\* C3 witness: document 1 is valid, document 2 violates the schema, exit code 1
C3_Witness ==
    /\ pc = "exit"
    /\ exitcode = 1
    /\ SchemaRejects
    /\ \E i \in DOMAIN calls : calls[i] = <<"validate_config", "config1", "True">>
    /\ \E i \in DOMAIN calls : calls[i] = <<"validate_config", "config2", "False">>

\* C4 (as stated): a run without --schema over two files that each parse to a
\* Document of any kind reaches the diff step and exits with code 0.
C4_ParsedDocumentsReachDiff ==
    (/\ pc = "exit"
     /\ args.schema = Absent
     /\ Parses(disk.file1, args.type)
     /\ Parses(disk.file2, args.type))
    => exitcode = 0 /\ Called("diff_configs", "")

\* C5 (as stated): what is printed, and what a successful write_diff leaves in
\* the output file, is exactly one newline-terminated line per string of the
\* diff, in order, with no blank line.
C5_OneOutputLinePerDiffLine ==
    /\ Called("print", "") => OneLineEach(stdout, diff)
    /\ HasLogged("INFO", "Diff written to") => OneLineEach(disk.output.text, diff)

\* write_diff was called and the output file does not hold the whole diff
WriteFailed ==
    /\ CalledAny({"write_diff"})
    /\ disk.output # OutFile(TRUE, EmittedAll(diff))

\* C6: when write_diff fails to open or write the output file, the failure is
\* logged, the run goes on to its last step and exits with code 0, never 1.
C6_WriteFailureIsNotFatal ==
    WriteFailed
    => /\ HasLogged("ERROR", "Error writing diff to file")
       /\ pc \in {"finish", "exit"}
       /\ pc = "finish" => ENABLED Finish
       /\ exitcode # 1
       /\ pc = "exit"
          => /\ exitcode = 0
             /\ log[Len(log)] = Logged("INFO", "Configuration comparison completed.", "")

\* C6 witness: both documents validated, the write failed part-way, exit code 0
C6_Witness ==
    /\ pc = "exit"
    /\ exitcode = 0
    /\ WriteFailed
    /\ Called("validate_config", "config2")
    /\ disk.output.exists
    /\ disk.output.text # <<>>

\* C7 (as stated): diff_configs(A, B) and diff_configs(B, A) hold the same
\* context lines, and each line marked '-' in one is marked '+' in the other,
\* as multisets.
C7_SwappedDiffIsInverse ==
    pc = "emit"
    => LET back == diff_configs(config2, config1)
       IN \A x \in Bodies(diff) \cup Bodies(back) :
             /\ Count(diff, " ", x) = Count(back, " ", x)
             /\ Count(diff, "-", x) = Count(back, "+", x)
             /\ Count(diff, "+", x) = Count(back, "-", x)

\* C7 (amended): diff_configs(A, B) is empty exactly when diff_configs(B, A)
\* is, and for every line the number of times it is marked '-' less the number
\* of times it is marked '+' in one equals the number of times it is marked
\* '+' less the number of times it is marked '-' in the other.
C7_NetChangeIsInverse ==
    pc = "emit"
    => LET back == diff_configs(config2, config1)
       IN /\ (diff = <<>>) <=> (back = <<>>)
          /\ \A x \in Bodies(diff) \cup Bodies(back) :
                Count(diff, "-", x) - Count(diff, "+", x)
                    = Count(back, "+", x) - Count(back, "-", x)

\* C7 witness: two documents whose canonical lines are reordered; the two
\* diffs keep different context lines
C7_Witness ==
    /\ pc = "emit"
    /\ diff # <<>>
    /\ LET back == diff_configs(config2, config1)
       IN \E x \in Bodies(diff) : Count(diff, " ", x) # Count(back, " ", x)

\* C8 (as stated): load_config called on an existing file that is malformed for
\* the declared format, or with format ini, raises ValueError.
C8_MalformedFileRaisesValueError ==
    \A i \in DOMAIN calls :
        LET file == IF calls[i][2] = args.file1 THEN disk.file1 ELSE disk.file2
        IN (/\ calls[i][1] = "load_config"
            /\ file.state = "file"
            /\ ~Parses(file, args.type))
           => calls[i][3] = "ValueError"

\* the place of a call in the pipeline
Step(call) ==
    CASE call[1] = "exists" -> 0
      [] call[1] = "load_config" /\ call[2] = args.file1 -> 1
      [] call[1] = "load_config" -> 2
      [] call[1] = "validate_config" /\ call[2] = "config1" -> 3
      [] call[1] = "validate_config" -> 4
      [] call[1] = "diff_configs" -> 5
      [] OTHER -> 6

\* C10 (as stated): the steps run in the order load file1, load file2, validate
\* 1, validate 2, diff, write; once the load of file1 has failed file2 is never
\* opened, and once document 1 has failed validation document 2 is never
\* validated; such a run exits with a non-zero code.
C10_FirstFailureAborts ==
    /\ \A i, j \in DOMAIN calls : (i < j /\ Step(calls[i]) > 0) => Step(calls[i]) < Step(calls[j])
    /\ (Called("load_config", args.file1) /\ ~Parses(disk.file1, args.type))
       => /\ ~Called("load_config", args.file2)
          /\ pc = "exit" => exitcode # 0
    /\ (\E i \in DOMAIN calls : calls[i] = <<"validate_config", "config1", "False">>)
       => /\ ~Called("validate_config", "config2")
          /\ pc = "exit" => exitcode # 0

\* Not a claim: the Validator half of C10 holds.
ValidationFailureAborts ==
    (\E i \in DOMAIN calls : calls[i] = <<"validate_config", "config1", "False">>)
    => /\ ~Called("validate_config", "config2")
       /\ pc = "exit"
       /\ exitcode = 1

\* C9: once the diff has been computed and is empty, nothing is printed,
\* write_diff is not called, the --output path is left as it was, and the run
\* exits with code 0 after reporting that the configurations are identical.
C9_EmptyDiffEmitsNothing ==
    (Called("diff_configs", "") /\ diff = <<>>)
    => /\ stdout = <<>>
       /\ ~CalledAny({"write_diff", "print"})
       /\ Untouched(disk.output)
       /\ pc # "exit" => ENABLED Next
       /\ exitcode # 1
       /\ pc = "exit"
          => /\ exitcode = 0
             /\ HasLogged("INFO", "Configurations are identical.")

\* C9 witness: --output names an existing file, the documents validated and
\* differ only in key order; the run has exited and the file is as it was
C9_Witness ==
    /\ pc = "exit"
    /\ exitcode = 0
    /\ Called("diff_configs", "")
    /\ diff = <<>>
    /\ config1 # config2
    /\ Truthy(args.output)
    /\ disk.output = OutFile(TRUE, <<"old", NL>>)

====
